---- MODULE Spec2Model ----
(***************************************************************************)
(* A model of btceapi/common.py: the BTCEConnection object (handle,        *)
(* cookie, handshake, request), the pair/order validators and the decimal  *)
(* truncation and formatting routines.                                     *)
(*                                                                         *)
(* Three specifications share the module:                                  *)
(*   Spec          the operations of one BTCEConnection                    *)
(*   SpecValidate  validatePair / validateOrder applied to drawn inputs    *)
(*   SpecFormat    truncateAmountDigits / formatCurrencyDigits applied to  *)
(*                 drawn inputs                                            *)
(***************************************************************************)
EXTENDS Integers, Sequences, FiniteSets, TLC

VARIABLES
    conn,        \* self.conn: the identity of the HTTPSConnection handle in use
    connState,   \* what has happened to that handle: idle, unread, failed, closed
    cookie,      \* self.cookie: None or Some(string)
    last,        \* observation: what the last operation did
    calls,       \* observation: makeRequest(with_cookie=True) calls since the handle was built
    handshakes,  \* observation: GET / requests executed since the handle was built
    firstHs,     \* observation: the value of calls when the first of them ran (0: none yet)
    sent,        \* observation: the Cookie header values POSTed since the handle was built
    clean,       \* observation: since the handle was built, only makeRequest/close, no transport failure
    vpair, vside, vamount, vresult,   \* validator: the inputs drawn and the outcome
    fvalue, fdigits, fresult          \* formatter: the inputs drawn and the outcomes

connVars == <<conn, connState, cookie, last, calls, handshakes, firstHs, sent, clean>>
validateVars == <<vpair, vside, vamount, vresult>>
formatVars == <<fvalue, fdigits, fresult>>
vars == <<connVars, validateVars, formatVars>>

(***************************************************************************)
(* Bounds of the model.                                                    *)
(***************************************************************************)
MaxCalls == 3        \* cookie-bearing makeRequest calls counted per handle
MaxHandles == 2      \* handles built after the constructor's

(***************************************************************************)
(* Python's None and a present value.                                      *)
(***************************************************************************)
None == <<>>
Some(v) == <<v>>

SetMin(S) == CHOOSE m \in S : \A n \in S : m <= n

(***************************************************************************)
(* Text seen by the two regular expressions.  A text is a sequence of      *)
(* tokens: the literal key of a pattern, a run of lowercase hex digits of  *)
(* the pattern's length, or other text ("x").                              *)
(***************************************************************************)
Hex46 == {"0123456789abcdef0123456789abcdef0123456789abcd",
          "fedcba9876543210fedcba9876543210fedcba98765432"}
Hex32 == {"0123456789abcdef0123456789abcdef",
          "fedcba9876543210fedcba9876543210"}
HexA == "0123456789abcdef0123456789abcdef0123456789abcd"
HexA2 == "fedcba9876543210fedcba9876543210fedcba98765432"
HexB == "0123456789abcdef0123456789abcdef"
HexB2 == "fedcba9876543210fedcba9876543210"

\* HEADER_COOKIE_RE.search(text): the group of the first match, or None
HEADER_COOKIE_RE(text) ==
    LET hits == {i \in 1..(Len(text) - 1) :
                    text[i] = "__cfduid=" /\ text[i + 1] \in Hex46}
    IN IF hits = {} THEN None ELSE Some(text[SetMin(hits) + 1])

\* BODY_COOKIE_RE.search(text): the group of the first match, or None
BODY_COOKIE_RE(text) ==
    LET hits == {i \in 1..(Len(text) - 2) :
                    /\ text[i] = "document.cookie=\"a="
                    /\ text[i + 1] \in Hex32
                    /\ text[i + 2] = ";path=/;\";"}
    IN IF hits = {} THEN None ELSE Some(text[SetMin(hits) + 1])

\* response.getheader("Set-Cookie"): None when the response has no such header
SetCookieHeaders ==
    { None,
      Some(<<"x">>),
      Some(<<"__cfduid=", HexA>>),
      Some(<<"x", "__cfduid=", HexA2, "x">>),
      Some(<<"__cfduid=", "x", "__cfduid=", HexA2, "__cfduid=", HexA>>) }

\* response.read() of the handshake
Bodies ==
    { <<"x">>,
      <<"document.cookie=\"a=", HexB, ";path=/;\";">>,
      <<"x", "document.cookie=\"a=", HexB2, ";path=/;\";", "x">>,
      <<"document.cookie=\"a=", HexB, "x", ";path=/;\";">> }

\* where the transport may fail during one request/response exchange
Failures == {"none", "request", "getresponse", "read"}

HandshakeEnvs == [fail : Failures, header : SetCookieHeaders, body : Bodies]

\* the environment of a call that runs no handshake
NoEnv == [fail |-> "none", header |-> None, body |-> <<>>]

(***************************************************************************)
(* BTCEConnection.  self is the record of the object's fields.             *)
(***************************************************************************)
Self == [conn |-> conn, connState |-> connState, cookie |-> cookie]

\* a faulty setup_connection: line 104 left out, the cookie survives the rebuild
setup_connection_keeps_cookie(self) ==
    [self EXCEPT !.conn = @ + 1, !.connState = "idle"]

\* setup_connection: a new handle, and the cookie cleared
setup_connection(self) ==
    [self EXCEPT !.conn = @ + 1, !.connState = "idle", !.cookie = None]

\* close: self.conn.close()
close(self) == [self EXCEPT !.connState = "closed"]

\* a faulty append: line 129 left out, the separator added to an empty cookie too
AppendBodyFragmentAlwaysSeparated(c, b) == c \o "; " \o "a=" \o b

\* lines 129-131: append the body fragment to the cookie built so far
AppendBodyFragment(c, b) ==
    (IF c # "" THEN c \o "; " ELSE c) \o "a=" \o b

NoHandshake(self) ==
    [self |-> self, raised |-> "none", failedAt |-> "none", reset |-> FALSE,
     ran |-> FALSE, completed |-> FALSE, fragA |-> None, fragB |-> None]

\* getCookie under the environment env (what the transport and the server do)
getCookie(self, env) ==
    LET s1 == [self EXCEPT !.cookie = Some("")]
        base == [NoHandshake(s1) EXCEPT !.ran = TRUE]
    IN IF env.fail \in {"request", "getresponse"}
       THEN \* except Exception: close, setup_connection, raise
            [base EXCEPT !.self = setup_connection(close(s1)),
                         !.raised = "TransportError",
                         !.failedAt = "get." \o env.fail,
                         !.reset = TRUE]
       ELSE IF env.header = None
       THEN \* HEADER_COOKIE_RE.search(None) raises TypeError
            [base EXCEPT !.self = [s1 EXCEPT !.connState = "unread"],
                         !.raised = "TypeError",
                         !.failedAt = "get.search"]
       ELSE LET m1 == HEADER_COOKIE_RE(env.header[1])
                s2 == IF m1 # None
                      THEN [s1 EXCEPT !.cookie = Some("__cfduid=" \o m1[1])]
                      ELSE s1
            IN IF env.fail = "read"
               THEN \* response.read() is outside the try block
                    [base EXCEPT !.self = [s2 EXCEPT !.connState = "failed"],
                                 !.raised = "TransportError",
                                 !.failedAt = "get.read",
                                 !.fragA = m1]
               ELSE LET m2 == BODY_COOKIE_RE(env.body)
                        s3 == IF m2 # None
                              THEN [s2 EXCEPT !.cookie =
                                       Some(AppendBodyFragment(s2.cookie[1], m2[1]))]
                              ELSE s2
                    IN [base EXCEPT !.self = [s3 EXCEPT !.connState = "idle"],
                                    !.completed = TRUE,
                                    !.fragA = m1,
                                    !.fragB = m2]

\* a faulty line 139: the handshake run on every cookie-bearing call
NeedsHandshakeAlways(self) == TRUE

\* line 139: whether makeRequest runs the handshake
NeedsHandshake(self) == self.cookie = None

\* makeRequest(url, extra_headers, params, with_cookie) under the environment:
\* hs is the handshake's, postFail where the POST exchange fails
makeRequest(self, with_cookie, hs, postFail) ==
    LET g == IF with_cookie /\ NeedsHandshake(self)
             THEN getCookie(self, hs)
             ELSE NoHandshake(self)
        out == [g EXCEPT !.raised = "none"] @@ [sentCookie |-> None]
    IN IF g.raised # "none"
       THEN g @@ [sentCookie |-> None]
       ELSE IF postFail = "request"
       THEN \* conn.request raises; the finally block still runs
            \* getresponse().read() on the same handle, then the call raises
            [out EXCEPT !.self = [g.self EXCEPT !.connState = "failed"],
                        !.raised = "TransportError",
                        !.failedAt = "post.request"]
       ELSE IF postFail \in {"getresponse", "read"}
       THEN [out EXCEPT !.self = [g.self EXCEPT !.connState = "failed"],
                        !.raised = "TransportError",
                        !.failedAt = "post." \o postFail,
                        !.sentCookie = IF with_cookie THEN g.self.cookie ELSE None]
       ELSE [out EXCEPT !.self = [g.self EXCEPT !.connState = "idle"],
                        !.sentCookie = IF with_cookie THEN g.self.cookie ELSE None]

(***************************************************************************)
(* The operations of one connection as actions.                            *)
(***************************************************************************)
Observe(op, wc, r) ==
    [op |-> op, with_cookie |-> wc, raised |-> r.raised, failedAt |-> r.failedAt,
     reset |-> r.reset, ran |-> r.ran, completed |-> r.completed,
     fragA |-> r.fragA, fragB |-> r.fragB, sentCookie |-> r.sentCookie,
     preCookie |-> cookie]

NoResult == NoHandshake(Self) @@ [sentCookie |-> None]

InitConn ==
    /\ conn = 0
    /\ connState = "idle"
    /\ cookie = None
    /\ last = Observe("__init__", FALSE, [NoResult EXCEPT !.self.cookie = None])
    /\ calls = 0
    /\ handshakes = 0
    /\ firstHs = 0
    /\ sent = {}
    /\ clean = TRUE

Apply(r) ==
    /\ r.self.conn <= MaxHandles
    /\ conn' = r.self.conn
    /\ connState' = r.self.connState
    /\ cookie' = r.self.cookie

\* the observation of a run starts again when the handle is rebuilt ...
Restart ==
    /\ clean' = TRUE
    /\ calls' = 0
    /\ handshakes' = 0
    /\ firstHs' = 0
    /\ sent' = {}

\* ... and ends at a transport failure or a direct getCookie call
Stop ==
    /\ clean' = FALSE
    /\ calls' = 0
    /\ handshakes' = 0
    /\ firstHs' = 0
    /\ sent' = {}

\* makeRequest(url, extra_headers, params, with_cookie), the handshake it may
\* run included, under any behaviour of the transport and the server
MakeRequest ==
    \E wc \in BOOLEAN, pf \in Failures :
      \E hs \in (IF wc /\ NeedsHandshake(Self) THEN HandshakeEnvs ELSE {NoEnv}) :
        LET r == makeRequest(Self, wc, hs, pf)
            n == IF wc THEN calls + 1 ELSE calls
            h == IF r.ran THEN handshakes + 1 ELSE handshakes
        IN /\ n <= MaxCalls
           /\ Apply(r)
           /\ last' = Observe("makeRequest", wc, r)
           /\ IF r.reset
              THEN Restart
              ELSE IF clean /\ r.raised # "TransportError"
              THEN /\ clean' = TRUE
                   /\ calls' = n
                   /\ handshakes' = h
                   /\ firstHs' = IF r.ran /\ firstHs = 0 THEN n ELSE firstHs
                   /\ sent' = IF r.sentCookie # None
                              THEN sent \cup {r.sentCookie[1]} ELSE sent
              ELSE Stop
           /\ UNCHANGED <<validateVars, formatVars>>

\* getCookie called by the user of the class
GetCookie ==
    \E hs \in HandshakeEnvs :
        LET r == getCookie(Self, hs) @@ [sentCookie |-> None]
        IN /\ Apply(r)
           /\ last' = Observe("getCookie", FALSE, r)
           /\ IF r.reset THEN Restart ELSE Stop
           /\ UNCHANGED <<validateVars, formatVars>>

\* close()
Close ==
    LET r == [NoResult EXCEPT !.self = close(Self)]
    IN /\ connState # "closed"
       /\ Apply(r)
       /\ last' = Observe("close", FALSE, r)
       /\ UNCHANGED <<calls, handshakes, firstHs, sent, clean>>
       /\ UNCHANGED <<validateVars, formatVars>>

\* setup_connection() called by the user of the class: the connection rebuilt
SetupConnection ==
    LET r == [NoResult EXCEPT !.self = setup_connection(Self)]
    IN /\ Apply(r)
       /\ last' = Observe("setup_connection", FALSE, r)
       /\ Restart
       /\ UNCHANGED <<validateVars, formatVars>>

\* the validators and the formatter at rest
InitValidateIdle ==
    /\ vpair = <<>>
    /\ vside = "buy"
    /\ vamount = None
    /\ vresult = None

InitFormatIdle ==
    /\ fvalue = None
    /\ fdigits = 0
    /\ fresult = None

(***************************************************************************)
(* Values of the decimal and formatting routines.  A Decimal is its sign,  *)
(* its coefficient (a sequence of digits) and its exponent, as in Python's *)
(* decimal module; a str is its sequence of characters; a raised exception *)
(* is its class name.                                                      *)
(***************************************************************************)
Dec(sign, int, exp) == [type |-> "Decimal", sign |-> sign, int |-> int, exp |-> exp]
Str(chars) == [type |-> "str", chars |-> chars]
Float(chars) == [type |-> "float", chars |-> chars]   \* a float, by the text str() gives it
Raise(name) == [type |-> "error", name |-> name]

Zeros(n) == [i \in 1..n |-> 0]
IsZero(x) == \A i \in 1..Len(x.int) : x.int[i] = 0
adjusted(x) == x.exp + Len(x.int) - 1

DigitChars == <<"0", "1", "2", "3", "4", "5", "6", "7", "8", "9">>
DigitChar(d) == DigitChars[d + 1]
CharDigit(c) == CHOOSE d \in 0..9 : DigitChars[d + 1] = c
IsDigitChar(c) == \E d \in 0..9 : DigitChars[d + 1] = c
ToChars(digits) == [i \in 1..Len(digits) |-> DigitChar(digits[i])]

\* the decimal digits of a natural number
RECURSIVE NatDigits(_)
NatDigits(n) == IF n < 10 THEN <<n>> ELSE NatDigits(n \div 10) \o <<n % 10>>

\* the natural number of a sequence of digits
RECURSIVE DigitsNat(_)
DigitsNat(ds) ==
    IF ds = <<>> THEN 0
    ELSE 10 * DigitsNat(SubSeq(ds, 1, Len(ds) - 1)) + ds[Len(ds)]

\* str(int(digits)): leading zeros dropped, "0" for none left
RECURSIVE StripLeadingZeros(_)
StripLeadingZeros(ds) ==
    IF ds = <<>> THEN <<0>>
    ELSE IF ds[1] = 0 /\ Len(ds) > 1 THEN StripLeadingZeros(Tail(ds))
    ELSE ds

\* str(int(coeff) + 1)
RECURSIVE IncCoeff(_)
IncCoeff(ds) ==
    IF ds = <<>> THEN <<1>>
    ELSE IF ds[Len(ds)] < 9 THEN [ds EXCEPT ![Len(ds)] = @ + 1]
    ELSE IncCoeff(SubSeq(ds, 1, Len(ds) - 1)) \o <<0>>

\* the context with line 20 left out: the default rounding, to nearest
getcontext_half_even == [prec |-> 28, rounding |-> "ROUND_HALF_EVEN"]

\* line 20: the context the module computes in (the default context, with
\* the rounding set to ROUND_DOWN)
getcontext == [prec |-> 28, rounding |-> "ROUND_DOWN"]

\* decimal's rounding functions: 1 to round the kept digits up, 0 when the
\* dropped digits are all zero, -1 to keep them as they are
AllZerosFrom(int, prec) == \A i \in (prec + 1)..Len(int) : int[i] = 0
ExactHalf(int, prec) ==
    /\ prec + 1 <= Len(int)
    /\ int[prec + 1] = 5
    /\ \A i \in (prec + 2)..Len(int) : int[i] = 0
round_down(int, prec) == IF AllZerosFrom(int, prec) THEN 0 ELSE -1
round_half_up(int, prec) ==
    IF int[prec + 1] >= 5 THEN 1
    ELSE IF AllZerosFrom(int, prec) THEN 0 ELSE -1
round_half_even(int, prec) ==
    IF ExactHalf(int, prec) /\ (prec = 0 \/ int[prec] % 2 = 0) THEN -1
    ELSE round_half_up(int, prec)
pick_rounding_function(rounding, int, prec) ==
    CASE rounding = "ROUND_DOWN" -> round_down(int, prec)
      [] rounding = "ROUND_HALF_UP" -> round_half_up(int, prec)
      [] rounding = "ROUND_HALF_EVEN" -> round_half_even(int, prec)

\* Decimal._rescale(exp, rounding)
rescale(self, exp, rounding) ==
    IF IsZero(self) THEN Dec(self.sign, <<0>>, exp)
    ELSE IF self.exp >= exp
    THEN Dec(self.sign, self.int \o Zeros(self.exp - exp), exp)
    ELSE LET digits0 == Len(self.int) + self.exp - exp
             int == IF digits0 < 0 THEN <<1>> ELSE self.int
             digits == IF digits0 < 0 THEN 0 ELSE digits0
             changed == pick_rounding_function(rounding, int, digits)
             coeff0 == IF digits = 0 THEN <<0>> ELSE SubSeq(int, 1, digits)
             coeff == IF changed = 1 THEN IncCoeff(coeff0) ELSE coeff0
         IN Dec(self.sign, coeff, exp)

\* Decimal.quantize(exp) in the module's context, for finite operands
quantize(self, exp) ==
    IF IsZero(self) THEN Dec(self.sign, <<0>>, exp.exp)
    ELSE IF adjusted(self) - exp.exp + 1 > getcontext.prec
    THEN Raise("InvalidOperation")
    ELSE LET ans == rescale(self, exp.exp, getcontext.rounding)
         IN IF Len(ans.int) > getcontext.prec
            THEN Raise("InvalidOperation")
            ELSE ans

\* Decimal(text): [sign] digits [. digits] [E [sign] digits]
FirstIndex(chars, S) ==
    LET hits == {i \in 1..Len(chars) : chars[i] \in S}
    IN IF hits = {} THEN 0 ELSE SetMin(hits)
AllDigitChars(chars) == \A i \in 1..Len(chars) : IsDigitChar(chars[i])
FromChars(chars) == [i \in 1..Len(chars) |-> CharDigit(chars[i])]
DecimalOfStr(chars) ==
    LET signed == chars # <<>> /\ chars[1] \in {"-", "+"}
        sign == IF chars # <<>> /\ chars[1] = "-" THEN 1 ELSE 0
        body == IF signed THEN Tail(chars) ELSE chars
        e == FirstIndex(body, {"E", "e"})
        mant == IF e = 0 THEN body ELSE SubSeq(body, 1, e - 1)
        expo == IF e = 0 THEN <<>> ELSE SubSeq(body, e + 1, Len(body))
        esigned == expo # <<>> /\ expo[1] \in {"-", "+"}
        edigits == IF esigned THEN Tail(expo) ELSE expo
        dot == FirstIndex(mant, {"."})
        intpart == IF dot = 0 THEN mant ELSE SubSeq(mant, 1, dot - 1)
        fracpart == IF dot = 0 THEN <<>> ELSE SubSeq(mant, dot + 1, Len(mant))
        ok == /\ AllDigitChars(intpart) /\ AllDigitChars(fracpart)
              /\ intpart \o fracpart # <<>>
              /\ e # 0 => (edigits # <<>> /\ AllDigitChars(edigits))
    IN IF ~ok THEN Raise("InvalidOperation")
       ELSE LET mag == IF e = 0 THEN 0 ELSE DigitsNat(FromChars(edigits))
                exp == IF esigned /\ expo[1] = "-" THEN -mag ELSE mag
            IN Dec(sign, StripLeadingZeros(FromChars(intpart \o fracpart)),
                   exp - Len(fracpart))

\* str(Decimal), Decimal.__str__
DecimalStr(x) ==
    LET n == Len(x.int)
        leftdigits == x.exp + n
        dotplace == IF x.exp <= 0 /\ leftdigits > -6 THEN leftdigits ELSE 1
        intpart == IF dotplace <= 0 THEN <<"0">>
                   ELSE IF dotplace >= n
                   THEN ToChars(x.int \o Zeros(dotplace - n))
                   ELSE ToChars(SubSeq(x.int, 1, dotplace))
        fracpart == IF dotplace <= 0
                    THEN <<".">> \o ToChars(Zeros(-dotplace) \o x.int)
                    ELSE IF dotplace >= n THEN <<>>
                    ELSE <<".">> \o ToChars(SubSeq(x.int, dotplace + 1, n))
        e == leftdigits - dotplace
        exp == IF e = 0 THEN <<>>
               ELSE <<"E", IF e < 0 THEN "-" ELSE "+">>
                    \o ToChars(NatDigits(IF e < 0 THEN -e ELSE e))
    IN (IF x.sign = 1 THEN <<"-">> ELSE <<>>) \o intpart \o fracpart \o exp

\* line 21: exps = [Decimal("1e-%d" % i) for i in range(16)]
NumExps == 16

\* a faulty table, one entry short
exps_short == [i \in 0..(NumExps - 2) |-> Dec(0, <<1>>, -i)]

exps == [i \in 0..(NumExps - 1) |-> Dec(0, <<1>>, -i)]

\* a Python list subscript: negative indices count from the end
ListIndex(list, n, i) ==
    IF 0 <= i /\ i < n THEN list[i]
    ELSE IF -n <= i /\ i < 0 THEN list[n + i]
    ELSE Raise("IndexError")

\* truncateAmountDigits(value, digits)
truncateAmountDigits(value, digits) ==
    LET n == Cardinality(DOMAIN exps)
        quantum == ListIndex(exps, n, digits)
        v1 == IF value.type = "float" THEN Str(value.chars) ELSE value
        v2 == IF v1.type = "str" THEN DecimalOfStr(v1.chars) ELSE v1
    IN IF quantum.type = "error" THEN quantum
       ELSE IF v2.type = "error" THEN v2
       ELSE quantize(v2, quantum)

\* lines 195-196: strip trailing zeros down to one digit after the point;
\* dot is the 0-based index of the point
RECURSIVE StripZeros(_, _)
StripZeros(s, dot) ==
    IF s[Len(s)] = "0" /\ Len(s) > dot + 2
    THEN StripZeros(SubSeq(s, 1, Len(s) - 1), dot)
    ELSE s

\* formatCurrencyDigits(value, digits)
formatCurrencyDigits(value, digits) ==
    LET t == truncateAmountDigits(value, digits)
    IN IF t.type = "error" THEN t
       ELSE LET s == DecimalStr(t)
                i == FirstIndex(s, {"."})
            IN IF i = 0 THEN Raise("ValueError")
               ELSE Str(StripZeros(s, i - 1))

(***************************************************************************)
(* The inputs the truncation and formatting routines are applied to.       *)
(***************************************************************************)
MaxCoefLen == 2      \* digits in the coefficient of a drawn Decimal

CoefDigits == {0, 1, 5, 9}
Coefficients ==
    {<<0>>} \cup
    {c \in UNION {[1..n -> CoefDigits] : n \in 1..MaxCoefLen} : c[1] # 0}
InputExps == {-16, -11, -8, -7, -2, -1, 0, 1, 13}
DecimalInputs == {Dec(sg, c, e) : sg \in {0, 1}, c \in Coefficients, e \in InputExps}
TextInputs ==
    { Str(<<"1", ".", "9", "5">>),
      Str(<<"-", ".", "0", "1", "9">>),
      Str(<<"0", "0", "7", "E", "-", "1", "0">>),
      Str(<<"1", ",", "5">>),
      Float(<<"1", ".", "5">>),
      Float(<<"2", "e", "-", "0", "7">>) }
ValueInputs == DecimalInputs \cup TextInputs
DigitInputs == (-1)..NumExps

InitFormat ==
    /\ conn = 0 /\ connState = "idle" /\ cookie = None
    /\ last = Observe("__init__", FALSE, NoResult)
    /\ calls = 0 /\ handshakes = 0 /\ firstHs = 0 /\ sent = {} /\ clean = TRUE
    /\ vpair = <<>> /\ vside = "buy" /\ vamount = None /\ vresult = None
    /\ fvalue \in ValueInputs
    /\ fdigits \in DigitInputs
    /\ fresult = None

Result(op, first, out) == [op |-> op, first |-> first, out |-> out]

\* truncateAmountDigits(fvalue, fdigits)
Truncate ==
    /\ fresult' = Result("truncateAmountDigits", None,
                         truncateAmountDigits(fvalue, fdigits))
    /\ UNCHANGED <<fvalue, fdigits, connVars, validateVars>>

\* truncateAmountDigits applied to what truncateAmountDigits returned
TruncateAgain ==
    /\ fresult # None
    /\ fresult.op = "truncateAmountDigits"
    /\ fresult.out.type # "error"
    /\ fresult' = Result("truncateAmountDigits twice", fresult.out,
                         truncateAmountDigits(fresult.out, fdigits))
    /\ UNCHANGED <<fvalue, fdigits, connVars, validateVars>>

\* formatCurrencyDigits(fvalue, fdigits)
Format ==
    /\ fresult' = Result("formatCurrencyDigits", None,
                         formatCurrencyDigits(fvalue, fdigits))
    /\ UNCHANGED <<fvalue, fdigits, connVars, validateVars>>

NextFormat == Truncate \/ TruncateAgain \/ Format

SpecFormat == InitFormat /\ [][NextFormat]_vars

(***************************************************************************)
(* The pair registry and the validators.  A pair name is the sequence of   *)
(* its pieces: "_" for each underscore and the text between underscores,   *)
(* so "btc_usd" is <<"btc", "_", "usd">>.                                  *)
(***************************************************************************)
P(a, b) == <<a, "_", b>>

all_pairs ==
    { P("btc", "usd"), P("btc", "rur"), P("btc", "eur"),
      P("btc", "cnh"), P("btc", "gbp"), P("ltc", "btc"),
      P("ltc", "usd"), P("ltc", "rur"), P("ltc", "eur"),
      P("ltc", "cnh"), P("ltc", "gbp"), P("nmc", "btc"),
      P("nmc", "usd"), P("nvc", "btc"), P("nvc", "usd"),
      P("usd", "rur"), P("usd", "cnh"), P("eur", "usd"),
      P("eur", "rur"), P("gbp", "usd"), P("ppc", "btc"),
      P("ppc", "usd") }

max_digits ==
    P("btc", "usd") :> 3 @@
    P("btc", "rur") :> 5 @@
    P("btc", "eur") :> 5 @@
    P("btc", "cnh") :> 2 @@
    P("btc", "gbp") :> 5 @@
    P("ltc", "btc") :> 5 @@
    P("ltc", "usd") :> 6 @@
    P("ltc", "rur") :> 5 @@
    P("ltc", "eur") :> 3 @@
    P("ltc", "cnh") :> 2 @@
    P("ltc", "gbp") :> 3 @@
    P("nmc", "btc") :> 5 @@
    P("nmc", "usd") :> 3 @@
    P("nvc", "btc") :> 5 @@
    P("nvc", "usd") :> 3 @@
    P("usd", "rur") :> 5 @@
    P("eur", "usd") :> 5 @@
    P("eur", "rur") :> 5 @@
    P("usd", "cnh") :> 4 @@
    P("gbp", "usd") :> 4 @@
    P("ppc", "btc") :> 5 @@
    P("ppc", "usd") :> 3

min_orders ==
    P("btc", "usd") :> Dec(0, <<1>>, -2) @@
    P("btc", "rur") :> Dec(0, <<1>>, -2) @@
    P("btc", "eur") :> Dec(0, <<1>>, -2) @@
    P("btc", "cnh") :> Dec(0, <<1>>, -2) @@
    P("btc", "gbp") :> Dec(0, <<1>>, -2) @@
    P("ltc", "btc") :> Dec(0, <<1>>, -1) @@
    P("ltc", "usd") :> Dec(0, <<1>>, -1) @@
    P("ltc", "rur") :> Dec(0, <<1>>, -1) @@
    P("ltc", "eur") :> Dec(0, <<1>>, -1) @@
    P("ltc", "cnh") :> Dec(0, <<1>>, -1) @@
    P("ltc", "gbp") :> Dec(0, <<1>>, -1) @@
    P("nmc", "btc") :> Dec(0, <<1>>, -1) @@
    P("nmc", "usd") :> Dec(0, <<1>>, -1) @@
    P("nvc", "btc") :> Dec(0, <<1>>, -1) @@
    P("nvc", "usd") :> Dec(0, <<1>>, -1) @@
    P("usd", "rur") :> Dec(0, <<1>>, -1) @@
    P("eur", "usd") :> Dec(0, <<1>>, -1) @@
    P("eur", "rur") :> Dec(0, <<1>>, -1) @@
    P("usd", "cnh") :> Dec(0, <<1>>, -1) @@
    P("gbp", "usd") :> Dec(0, <<1>>, -1) @@
    P("ppc", "btc") :> Dec(0, <<1>>, -1) @@
    P("ppc", "usd") :> Dec(0, <<1>>, -1)

\* Decimal comparison (x < y) of finite values, by magnitude and sign
AlignedInt(x, e) == StripLeadingZeros(x.int \o Zeros(x.exp - e))
LexLess(a, b) ==
    \E i \in 1..Len(a) : a[i] < b[i] /\ \A j \in 1..(i - 1) : a[j] = b[j]
MagLess(x, y) ==
    LET e == IF x.exp < y.exp THEN x.exp ELSE y.exp
        a == AlignedInt(x, e)
        b == AlignedInt(y, e)
    IN Len(a) < Len(b) \/ (Len(a) = Len(b) /\ LexLess(a, b))
DecLess(x, y) ==
    IF IsZero(x) THEN ~IsZero(y) /\ y.sign = 0
    ELSE IF IsZero(y) THEN x.sign = 1
    ELSE IF x.sign # y.sign THEN x.sign = 1
    ELSE IF x.sign = 0 THEN MagLess(x, y) ELSE MagLess(y, x)

\* formatCurrency(value, pair)
formatCurrency(value, pair) ==
    IF pair \in DOMAIN max_digits
    THEN formatCurrencyDigits(value, max_digits[pair])
    ELSE Raise("KeyError")

\* a faulty line 159: the two parts not exchanged
SwappedPairUnswapped(a, b) == a \o <<"_">> \o b

\* line 159: swapped_pair = "%s_%s" % (b, a)
SwappedPair(a, b) == b \o <<"_">> \o a

Outcome(raised, suggestion, formatted) ==
    [raised |-> raised, suggestion |-> suggestion, formatted |-> formatted]

\* validatePair(pair)
validatePair(pair) ==
    IF pair \in all_pairs THEN Outcome("none", None, None)
    ELSE LET i == FirstIndex(pair, {"_"})
             a == SubSeq(pair, 1, i - 1)
             b == SubSeq(pair, i + 1, Len(pair))
         IN IF i # 0 /\ SwappedPair(a, b) \in all_pairs
            THEN Outcome("InvalidTradePairException", Some(SwappedPair(a, b)), None)
            ELSE Outcome("InvalidTradePairException", None, None)

\* a faulty line 174: amount <= minimum_amount
AmountTooSmallOrEqual(amount, minimum) == ~DecLess(minimum, amount)

\* line 174: amount < minimum_amount
AmountTooSmall(amount, minimum) == DecLess(amount, minimum)

\* validateOrder(pair, trade_type, rate, amount); rate is not read
validateOrder(pair, trade_type, amount) ==
    LET v == validatePair(pair)
    IN IF v.raised # "none" THEN v
       ELSE IF trade_type \notin {"buy", "sell"}
       THEN Outcome("InvalidTradeTypeException", None, None)
       ELSE LET minimum_amount == min_orders[pair]
                formatted_min_amount == formatCurrency(minimum_amount, pair)
            IN IF formatted_min_amount.type = "error"
               THEN Outcome(formatted_min_amount.name, None, None)
               ELSE IF AmountTooSmall(amount, minimum_amount)
               THEN Outcome("InvalidTradeAmountException", None,
                            Some(formatted_min_amount.chars))
               ELSE Outcome("none", None, None)

(***************************************************************************)
(* The inputs the validators are applied to.                               *)
(***************************************************************************)
PairInputs ==
    all_pairs \cup
    { P("usd", "btc"), P("rur", "usd"), P("btc", "xyz"),
      <<"btcusd">>, <<>>, <<"usd", "_">>, <<"_", "usd">>,
      <<"usd", "_", "_", "btc">>, <<"usd", "_", "btc", "_", "usd">> }
SideInputs == {"buy", "sell", "hold"}
AmountExps == {-3, -2, -1}
AmountInputs == {Dec(sg, c, e) : sg \in {0, 1}, c \in Coefficients, e \in AmountExps}

InitValidate ==
    /\ conn = 0 /\ connState = "idle" /\ cookie = None
    /\ last = Observe("__init__", FALSE, NoResult)
    /\ calls = 0 /\ handshakes = 0 /\ firstHs = 0 /\ sent = {} /\ clean = TRUE
    /\ fvalue = None /\ fdigits = 0 /\ fresult = None
    /\ vpair \in PairInputs
    /\ vside \in SideInputs
    /\ vamount \in AmountInputs
    /\ vresult = None

\* validatePair(vpair)
ValidatePair ==
    /\ vresult' = [op |-> "validatePair"] @@ validatePair(vpair)
    /\ UNCHANGED <<vpair, vside, vamount, connVars, formatVars>>

\* validateOrder(vpair, vside, rate, vamount)
ValidateOrder ==
    /\ vresult' = [op |-> "validateOrder"] @@ validateOrder(vpair, vside, vamount)
    /\ UNCHANGED <<vpair, vside, vamount, connVars, formatVars>>

NextValidate == ValidatePair \/ ValidateOrder

SpecValidate == InitValidate /\ [][NextValidate]_vars

Init == InitConn /\ InitValidateIdle /\ InitFormatIdle

Next == MakeRequest \/ GetCookie \/ Close \/ SetupConnection

Spec == Init /\ [][Next]_vars

(***************************************************************************)
(* Claims about the connection, checked under Spec.                        *)
(***************************************************************************)

\* C1: in a run of makeRequest calls on one handle with no transport failure
\* and no rebuild, once a cookie-bearing call has been made the handshake has
\* run exactly once, in the first of those calls, and all the Cookie header
\* values sent are one and the same value, the cookie held.
C1_HandshakeOnce ==
    (clean /\ calls >= 1) =>
        /\ handshakes = 1
        /\ firstHs = 1
        /\ Cardinality(sent) <= 1
        /\ sent # {} => (cookie # None /\ sent = {cookie[1]})

\* C1 witness: a second cookie-bearing call has just sent the cookie the
\* first call's handshake fetched, without running a handshake itself.
C1_Witness ==
    /\ clean
    /\ calls >= 2
    /\ last.op = "makeRequest" /\ last.with_cookie /\ last.raised = "none"
    /\ ~last.ran
    /\ last.sentCookie = cookie
    /\ cookie \notin {None, Some("")}

\* C2: a makeRequest call that fails in the POST exchange (send, get the
\* response, read it) has closed the handle and built a fresh one before it
\* raises, so that the next call runs on a fresh handle.
C2_RequestFailureRebuildsHandle ==
    last.failedAt \in {"post.request", "post.getresponse", "post.read"} =>
        (last.reset /\ connState = "idle")

\* C3: a transport error at any step of the handshake (send GET /, get the
\* response, read the body) is raised only after the connection has reset
\* itself, and leaves the cookie None.
C3_HandshakeFailureResets ==
    last.failedAt \in {"get.request", "get.getresponse", "get.read"} =>
        (last.reset /\ connState = "idle" /\ cookie = None)

\* C4 as stated: a reset triggered by a transport failure leaves the cookie
\* as it was before the failing operation.
C4_ResetKeepsCookie == last.reset => cookie = last.preCookie

\* C4 as amended: a reset triggered by a transport failure leaves the cookie
\* None, whatever was held before the failing operation.
C4_ResetClearsCookie == last.reset => cookie = None

\* C4 witness: a reset has happened in an operation that began with a cookie.
C4_Witness == last.reset /\ last.preCookie # None /\ last.raised = "TransportError"

ExpectedCookie(a, b) ==
    CASE a # None /\ b # None -> "__cfduid=" \o a[1] \o "; a=" \o b[1]
      [] a # None /\ b = None -> "__cfduid=" \o a[1]
      [] a = None /\ b # None -> "a=" \o b[1]
      [] a = None /\ b = None -> ""

\* C5: after a handshake that completed without error the cookie is not None
\* and is the composition of the extracted fragments A and B, in all four
\* cases of their presence.
C5_CookieComposition ==
    last.completed =>
        (cookie # None /\ cookie = Some(ExpectedCookie(last.fragA, last.fragB)))

\* C5 witness: a handshake has completed with only the body fragment found.
C5_Witness ==
    last.completed /\ last.fragA = None /\ last.fragB # None

(***************************************************************************)
(* Claims about truncation and formatting, checked under SpecFormat.       *)
(* Magnitudes are compared digit by digit on coefficients brought to a     *)
(* common exponent.                                                        *)
(***************************************************************************)
MagEq(x, y) ==
    LET e == IF x.exp < y.exp THEN x.exp ELSE y.exp
    IN AlignedInt(x, e) = AlignedInt(y, e)
NumEq(x, y) ==
    /\ x.type = "Decimal" /\ y.type = "Decimal"
    /\ MagEq(x, y)
    /\ IsZero(x) \/ x.sign = y.sign

\* |r| + 10^-d, for r a multiple of 10^-d
MagPlusUnit(r, d) == Dec(0, IncCoeff(r.int \o Zeros(r.exp + d)), -d)

Truncated ==
    /\ fresult # None
    /\ fresult.op = "truncateAmountDigits"
    /\ fvalue.type = "Decimal"
    /\ fdigits >= 0

\* C9: whenever truncateAmountDigits(x, d) returns, for a Decimal x and
\* d >= 0, the result is a multiple of 10^-d, is zero or has the sign of x,
\* is no larger than x in absolute value and is less than 10^-d away from x.
C9_TruncatesTowardZero ==
    (Truncated /\ fresult.out.type # "error") =>
        LET x == fvalue
            r == fresult.out
        IN /\ r.type = "Decimal"
           /\ r.exp >= -fdigits
           /\ IsZero(r) \/ r.sign = x.sign
           /\ ~MagLess(x, r)
           /\ MagLess(x, MagPlusUnit(r, fdigits))

\* C9 witness: -1.9 truncated to 0 places is -1 (to nearest, or away from
\* zero, it would be -2).
C9_Witness ==
    /\ Truncated
    /\ fvalue = Dec(1, <<1, 9>>, -1)
    /\ fdigits = 0
    /\ fresult.out = Dec(1, <<1>>, 0)

\* C10 as stated: for every Decimal x and every d >= 0, truncating the
\* truncated value is defined and returns the truncated value.
C10_IdempotentForAll ==
    (fresult # None /\ fvalue.type = "Decimal" /\ fdigits >= 0) =>
        /\ fresult.op = "truncateAmountDigits" => fresult.out.type = "Decimal"
        /\ fresult.op = "truncateAmountDigits twice" => fresult.out = fresult.first

\* the truncated value has at most the 28 digits of the context's precision
FitsPrecision(x, d) == IsZero(x) \/ Len(x.int) + x.exp + d <= 28

\* C10 as amended: for every finite Decimal x and every d in 0..15 such that
\* x truncated to d places has at most 28 digits, truncating the truncated
\* value is defined and returns the truncated value.
C10_Idempotent ==
    (/\ fresult # None /\ fvalue.type = "Decimal"
     /\ fdigits \in 0..15 /\ FitsPrecision(fvalue, fdigits)) =>
        /\ fresult.op = "truncateAmountDigits" => fresult.out.type = "Decimal"
        /\ fresult.op = "truncateAmountDigits twice" => fresult.out = fresult.first

\* C10 witness: a value that lost digits in the first truncation has been
\* truncated again, at the largest digit count there is.
C10_Witness ==
    /\ fresult # None /\ fvalue.type = "Decimal"
    /\ fresult.op = "truncateAmountDigits twice"
    /\ fdigits = 15
    /\ fvalue.exp < -fdigits
    /\ ~IsZero(fresult.out)
    /\ fresult.out = fresult.first

\* C8: for every Decimal value and every d >= 0, formatCurrencyDigits returns
\* a string with a decimal point followed by at least one digit, ending in
\* "0" only if that is its one fractional digit, whose numeric value is
\* truncateAmountDigits(value, d).
C8_FormatClaim ==
    (/\ fresult # None /\ fresult.op = "formatCurrencyDigits"
     /\ fvalue.type = "Decimal" /\ fdigits >= 0) =>
        /\ fresult.out.type = "str"
        /\ LET s == fresult.out.chars
               dot == FirstIndex(s, {"."})
           IN /\ dot # 0
              /\ Len(s) > dot
              /\ IsDigitChar(s[dot + 1])
              /\ s[Len(s)] = "0" => Len(s) = dot + 1
              /\ NumEq(DecimalOfStr(s), truncateAmountDigits(fvalue, fdigits))

(***************************************************************************)
(* Claims about the validators, checked under SpecValidate.                *)
(***************************************************************************)

\* an amount in thousandths, as an integer (the amounts drawn have at most
\* three fractional digits)
RECURSIVE Pow10(_)
Pow10(n) == IF n = 0 THEN 1 ELSE 10 * Pow10(n - 1)
Thousandths(x) ==
    (IF x.sign = 1 THEN -1 ELSE 1) * DigitsNat(x.int) * Pow10(x.exp + 3)

\* C6: validateOrder returns normally iff the pair is registered, the side
\* is buy or sell and the amount is at least min_orders[pair]; otherwise it
\* raises the error of the first check that fails, in the order pair, side,
\* amount.
C6_ValidateOrder ==
    (vresult # None /\ vresult.op = "validateOrder") =>
        vresult.raised =
            IF vpair \notin all_pairs THEN "InvalidTradePairException"
            ELSE IF vside \notin {"buy", "sell"} THEN "InvalidTradeTypeException"
            ELSE IF Thousandths(vamount) < Thousandths(min_orders[vpair])
            THEN "InvalidTradeAmountException"
            ELSE "none"

\* C6 witness: an order of exactly the minimum amount (0.010 of btc_usd, whose
\* minimum is 0.01) has been accepted.
C6_Witness ==
    /\ vresult # None /\ vresult.op = "validateOrder"
    /\ vpair = P("btc", "usd") /\ vside = "sell"
    /\ vamount = Dec(0, <<1, 0>>, -3)
    /\ vresult.raised = "none"

\* the two currency codes of a name exchanged around its separator
SwappedForm(pair) ==
    IF Len(pair) = 3 /\ pair[2] = "_" THEN <<pair[3], "_", pair[1]>> ELSE None

\* C7: validatePair raises InvalidTradePair exactly when the pair is not
\* registered, and the error suggests a pair exactly when the pair is not
\* registered and its swapped form is; what it suggests is that swapped
\* form, a registered pair.
C7_ValidatePair ==
    (vresult # None /\ vresult.op = "validatePair") =>
        /\ vresult.raised = "InvalidTradePairException" <=> vpair \notin all_pairs
        /\ vresult.raised = "none" <=> vpair \in all_pairs
        /\ vresult.suggestion # None <=>
               (vpair \notin all_pairs /\ SwappedForm(vpair) \in all_pairs)
        /\ vresult.suggestion # None =>
               /\ vresult.suggestion[1] = SwappedForm(vpair)
               /\ vresult.suggestion[1] \in all_pairs

\* C7 witness: validatePair("usd_btc") has raised, suggesting btc_usd.
C7_Witness ==
    /\ vresult # None /\ vresult.op = "validatePair"
    /\ vpair = P("usd", "btc")
    /\ vresult.raised = "InvalidTradePairException"
    /\ vresult.suggestion = Some(P("btc", "usd"))

====
